---- MODULE Spec2Model ----
(***************************************************************************)
(* Raceline tracking controller (controller.py): the track queries, the    *)
(* outer pure-pursuit layer `controller`, the inner regulation layer       *)
(* `lower_controller`, the process-wide `controller_state` table and the   *)
(* tick loop that drives them.                                             *)
(*                                                                         *)
(* Numbers.  The program computes in IEEE doubles; the model computes in   *)
(* fixed point with three decimals: lengths in mm, velocities in mm/s,     *)
(* angles in mrad, curvature in 1/km, ratios and gains in 1/1000.  Square  *)
(* roots round down to the unit, products of two scaled numbers are        *)
(* divided by 1000 rounding to nearest.  All coordinates stay inside a     *)
(* 20 m box so that every intermediate value fits TLC's 32-bit integers.   *)
(***************************************************************************)
EXTENDS Integers, Sequences, FiniteSets

(***************************************************************************)
(* Bounds of the checked input space.                                      *)
(***************************************************************************)
\* vehicle positions are drawn from the grid {0..MaxPosIdx} x {0..MaxPosIdx} * PosStep
MaxPosIdx == 2
\* vehicle velocities are drawn from {-1..MaxVelIdx} * VelStep
MaxVelIdx == 4
\* find_lookahead_point is called directly with distances {-1..MaxDistIdx} * DistStep
MaxDistIdx == 9

Scale == 10 * 100
PosStep == 4 * Scale + Scale \div 2
VelStep == 10 * Scale
DistStep == 4 * Scale

(***************************************************************************)
(* Literals of controller.py, scaled by 1000.                              *)
(***************************************************************************)
base_lookahead == 8000
velocity_factor == 150
velocity_cap == 30000
cte_far == 2000
cte_near == 1000
lookahead_min == 6000
lookahead_max == 15000
segment_floor == 1
L_epsilon == 100
wheelbase == 3600
cte_correct == 1500
correction_gain == 50
correction_limit == 100
steering_limit == 900
curvature_tight == 100
curvature_moderate == 50
curvature_gentle == 20
v_tight == 12000
v_moderate == 18000
v_gentle == 25000
v_straight == 35000
v_recovery == 15000
max_speed_change == 10000
gain_low_speed == 2000
gain_mid_speed == 1800
gain_high_speed == 1500
speed_low == 10000
speed_mid == 25000
steering_rate_limit == 400
kp == 1500
max_accel == 15000
max_decel == -15000
default_window == 5
\* denom > 1e-6 m^3 with denom = (|v1||v2|)^1.5 is |v1|^2 |v2|^2 > 1e-8 m^4 = 1e4 mm^4
denom_floor == 10000

(***************************************************************************)
(* Arithmetic of the fixed-point representation.                           *)
(***************************************************************************)
Abs(a) == IF a < 0 THEN -a ELSE a
Min(a, b) == IF a < b THEN a ELSE b
Max(a, b) == IF a > b THEN a ELSE b
Sign(a) == IF a > 0 THEN 1 ELSE IF a < 0 THEN -1 ELSE 0

\* a / b rounded to the nearest unit, halves away from zero (b > 0)
RDiv(a, b) == IF a >= 0 THEN (2 * a + b) \div (2 * b) ELSE -((2 * (-a) + b) \div (2 * b))

\* np.clip(a, lo, hi) = minimum(maximum(a, lo), hi)
Clip(a, lo, hi) == Min(Max(a, lo), hi)

RECURSIVE SqrtIter(_, _)
SqrtIter(n, x) ==
    LET y == (x + n \div x) \div 2
    IN  IF y >= x THEN x ELSE SqrtIter(n, y)

\* floor of the square root (Newton's iteration from above)
ISqrt(n) == IF n < 2 THEN n ELSE SqrtIter(n, IF n < 46341 THEN n ELSE 46341)

\* np.linalg.norm of the vector from q to p, in mm
Norm(p, q) == ISqrt((p[1] - q[1]) * (p[1] - q[1]) + (p[2] - q[2]) * (p[2] - q[2]))

\* np.arctan on 1/1000 units for 0 <= x <= 1000: x / (1 + 0.28 x^2), error < 5 mrad
ArctanUnit(x) == (x * Scale) \div (Scale + (28 * ((x * x) \div Scale)) \div 100)

\* np.arctan: odd, increasing, arctan(x) = pi/2 - arctan(1/x) for x > 1
HalfPi == 1571
ArctanPos(x) == IF x <= Scale THEN ArctanUnit(x) ELSE HalfPi - ArctanUnit((Scale * Scale) \div x)
Arctan(x) == IF x >= 0 THEN ArctanPos(x) ELSE -ArctanPos(-x)

\* np.cos / np.sin at the headings the model draws (mrad -> 1/1000)
Headings == {0, 1571, 3142, -927}
Cos(h) == CASE h = 0 -> 1000 [] h = 1571 -> 0 [] h = 3142 -> -1000 [] h = -927 -> 600
Sin(h) == CASE h = 0 -> 0 [] h = 1571 -> 1000 [] h = 3142 -> 0 [] h = -927 -> -800

(***************************************************************************)
(* Track centerlines (racetrack.centerline): cyclic sequences of points,   *)
(* indexed from 0 as in the program.                                       *)
(***************************************************************************)
At(track, i) == track[i + 1]

\* four points of a circle of radius 5 m about (5, 5), 90 degrees apart
Square4 == << <<10000, 5000>>, <<5000, 10000>>, <<0, 5000>>, <<5000, 0>> >>
\* three points of a circle of radius 5 m about the origin, 36.87 degrees apart
Arc3 == << <<5000, 0>>, <<4000, 3000>>, <<1400, 4800>> >>
\* a straight run that bends gently, closed by a far corner
Gentle12 == << <<0, 0>>, <<1600, 0>>, <<3200, 0>>, <<4800, 0>>, <<6400, 0>>, <<8000, 0>>,
               <<9600, 100>>, <<11200, 300>>, <<12800, 600>>, <<14400, 1000>>,
               <<16000, 2000>>, <<8000, 6000>> >>
\* twelve collinear points
Line12 == [i \in 1..12 |-> <<1500 * (i - 1), 5000>>]
\* a loop shorter than the smallest lookahead distance
Tiny3 == << <<9000, 9000>>, <<10000, 9000>>, <<9000, 10000>> >>
\* a loop with a repeated point and three points 5 mm apart
Dup6 == << <<0, 0>>, <<0, 0>>, <<3000, 0>>, <<3000, 4000>>, <<3005, 4000>>,
           <<3005, 4005>> >>
\* a single point
Single1 == << <<5000, 5000>> >>
\* two 10 m segments that bend by 8.5 degrees, closed by the long way back
Bend3 == << <<0, 0>>, <<10000, 0>>, <<20000, 1500>> >>

Tracks == {Square4, Arc3, Gentle12, Line12, Tiny3, Dup6, Single1, Bend3}

RECURSIVE SumSegments(_, _)
SumSegments(track, i) ==
    IF i = Len(track) THEN 0
    ELSE Norm(At(track, (i + 1) % Len(track)), At(track, i)) + SumSegments(track, i + 1)

\* the length of the closed track: the sum of its n cyclic segment lengths
TrackLength(track) == SumSegments(track, 0)

(***************************************************************************)
(* Track queries.                                                          *)
(***************************************************************************)
\* distances = np.linalg.norm(track - position, axis=1)
Distances(position, track) == [i \in 0..(Len(track) - 1) |-> Norm(At(track, i), position)]

\* np.argmin: scan in index order, keeping the first minimum encountered
RECURSIVE ArgMinScan(_, _, _, _)
ArgMinScan(distances, n, i, best) ==
    IF i = n THEN best
    ELSE ArgMinScan(distances, n, i + 1, IF distances[i] < distances[best] THEN i ELSE best)

ArgMin(distances, n) == ArgMinScan(distances, n, 1, 0)

\* a search restricted to the neighbours of the hint index
find_closest_point_windowed(position, track, last_idx) ==
    LET n_points == Len(track)
        distances == Distances(position, track)
        window == {(last_idx + k) % n_points : k \in -1..1}
        closest_idx == CHOOSE i \in window :
                           \A j \in window : distances[i] < distances[j]
                                              \/ (distances[i] = distances[j] /\ i <= j)
    IN  [closest_idx |-> closest_idx, min_dist |-> distances[closest_idx]]

\* a scan that starts at the hint index and wraps, so that ties go to the hint's side
find_closest_point_from_hint(position, track, last_idx) ==
    LET n_points == Len(track)
        distances == Distances(position, track)
        closest_idx == ArgMin(distances, n_points)
        from_hint(i) == (i - last_idx) % n_points
        hinted_idx == CHOOSE i \in 0..(n_points - 1) :
                          /\ distances[i] = distances[closest_idx]
                          /\ \A j \in 0..(n_points - 1) :
                                 distances[j] = distances[closest_idx]
                                     => from_hint(i) <= from_hint(j)
    IN  [closest_idx |-> hinted_idx, min_dist |-> distances[hinted_idx]]

\* find_closest_point_on_track(position, track, last_idx) -> (closest_idx, min_dist)
find_closest_point_on_track(position, track, last_idx) ==
    LET n_points == Len(track)
        distances == Distances(position, track)
        closest_idx == ArgMin(distances, n_points)
    IN  [closest_idx |-> closest_idx, min_dist |-> distances[closest_idx]]

\* the interpolation with the two weights exchanged
InterpolateWeightsSwapped(p, q, ratio) ==
    << RDiv(p[1] * ratio + q[1] * (Scale - ratio), Scale),
       RDiv(p[2] * ratio + q[2] * (Scale - ratio), Scale) >>

\* track[current_idx] * (1 - ratio) + track[next_idx] * ratio
Interpolate(p, q, ratio) ==
    << RDiv(p[1] * (Scale - ratio) + q[1] * ratio, Scale),
       RDiv(p[2] * (Scale - ratio) + q[2] * ratio, Scale) >>

\* a loop that makes one pass too many
LoopRangeOneMore(n_points) == n_points + 1

\* the number of passes the for loop of find_lookahead_point may make
LoopRange(n_points) == n_points

\* the comparison turned around
ReachedFlipped(accumulated, segment_dist, lookahead_dist) ==
    accumulated + segment_dist <= lookahead_dist

\* if accumulated + segment_dist >= lookahead_dist
Reached(accumulated, segment_dist, lookahead_dist) ==
    accumulated + segment_dist >= lookahead_dist

\* the body of find_lookahead_point's loop, pass `iter` (0-based) of `limit`
RECURSIVE LookaheadLoop(_, _, _, _, _, _)
LookaheadLoop(track, lookahead_dist, limit, iter, accumulated, current_idx) ==
    IF iter = limit
    THEN [lookahead_point |-> At(track, current_idx), lookahead_idx |-> current_idx,
          iterations |-> iter, in_loop |-> FALSE, segment |-> current_idx,
          ratio |-> 0, accumulated |-> accumulated]
    ELSE LET n_points == Len(track)
             next_idx == (current_idx + 1) % n_points
             segment_dist == Norm(At(track, next_idx), At(track, current_idx))
         IN  IF Reached(accumulated, segment_dist, lookahead_dist)
             THEN LET ratio == Clip(RDiv((lookahead_dist - accumulated) * Scale,
                                         Max(segment_dist, segment_floor)), 0, Scale)
                  IN  [lookahead_point |-> Interpolate(At(track, current_idx),
                                                       At(track, next_idx), ratio),
                       lookahead_idx |-> next_idx, iterations |-> iter + 1,
                       in_loop |-> TRUE, segment |-> current_idx,
                       ratio |-> ratio, accumulated |-> accumulated]
             ELSE LookaheadLoop(track, lookahead_dist, limit, iter + 1,
                                accumulated + segment_dist, next_idx)

\* find_lookahead_point(position, track, start_idx, lookahead_dist)
\*   -> (lookahead_point, index); `iterations` counts the loop passes made
find_lookahead_point(position, track, start_idx, lookahead_dist) ==
    LookaheadLoop(track, lookahead_dist, LoopRange(Len(track)), 0, 0, start_idx)

\* denom > 1e-6, on d1 = |v1|^2 and d2 = |v2|^2 (mm^2), without overflow
DenomAboveFloor(d1, d2) ==
    IF d1 = 0 \/ d2 = 0 THEN FALSE
    ELSE IF d1 > denom_floor \/ d2 > denom_floor THEN TRUE
    ELSE d1 * d2 > denom_floor

\* 2 * cross / denom with denom = (|v1||v2|)^1.5 = root^3, root = sqrt(|v1||v2|):
\* cross in mm^2, root in mm, result in 1/km, one factor of root at a time
CurvatureQuotient(cross, root) ==
    LET sign == Sign(cross)
        u == (2 * Abs(cross)) \div root
        w == (u * Scale) \div root
    IN  sign * ((w * Scale) \div root)

\* the quotient without abs
CurvatureValueSigned(cross, root) == CurvatureQuotient(cross, root)

\* abs(2 * cross / denom)
CurvatureValue(cross, root) == Abs(CurvatureQuotient(cross, root))

\* calculate_curvature(track, idx, window) -> curvature
calculate_curvature(track, idx, window) ==
    LET n_points == Len(track)
        idx_prev == (idx - window) % n_points
        idx_next == (idx + window) % n_points
        p1 == At(track, idx_prev)
        p2 == At(track, idx)
        p3 == At(track, idx_next)
        v1 == <<p2[1] - p1[1], p2[2] - p1[2]>>
        v2 == <<p3[1] - p2[1], p3[2] - p2[2]>>
        cross == v1[1] * v2[2] - v1[2] * v2[1]
        d1 == v1[1] * v1[1] + v1[2] * v1[2]
        d2 == v2[1] * v2[1] + v2[2] * v2[2]
        divides == DenomAboveFloor(d1, d2)
    IN  [curvature |-> IF divides
                       THEN CurvatureValue(cross, ISqrt(ISqrt(d1) * ISqrt(d2)))
                       ELSE 0,
         divides |-> divides, cross |-> cross, d1 |-> d1, d2 |-> d2,
         p1 |-> p1, p2 |-> p2, p3 |-> p3]

(***************************************************************************)
(* The two control layers.  A vehicle state is the array                   *)
(* [x, y, steering, velocity, heading], indexed from 0 (config.py).  The   *)
(* numbers are binary64 values held to 1/1000; of the velocity the state   *)
(* also keeps, in a last entry, what lies below that: 1 for a positive     *)
(* velocity of less than half an ulp of 10.0 (about 8.9e-16 m/s), which    *)
(* compares as positive and is absorbed by a sum with 10.0, otherwise 0.   *)
(***************************************************************************)
STATE_X == 0
STATE_Y == 1
STATE_STEERING == 2
STATE_VELOCITY == 3
STATE_HEADING == 4
VELOCITY_RESIDUE == STATE_HEADING + 1

Get(array, i) == array[i + 1]

\* controller_state.get('last_idx', 0)
GetLastIdx(cs) == IF "last_idx" \in DOMAIN cs THEN cs["last_idx"] ELSE 0

\* an assignment that replaces the table by one holding last_idx alone
SetLastIdxOnly(cs, closest_idx) == [k \in {"last_idx"} |-> closest_idx]

\* controller_state['last_idx'] = closest_idx
SetLastIdx(cs, closest_idx) ==
    [k \in (DOMAIN cs) \cup {"last_idx"} |-> IF k = "last_idx" THEN closest_idx ELSE cs[k]]

\* controller_state.clear()
dict_clear(cs) == [k \in {} |-> 0]

\* controller_state.update(entries)
dict_update(cs, entries) ==
    [k \in (DOMAIN cs) \cup (DOMAIN entries) |->
        IF k \in DOMAIN entries THEN entries[k] ELSE cs[k]]

\* controller_state[key] = value
dict_setitem(cs, key, value) == dict_update(cs, [k \in {key} |-> value])

\* the entries test_tracking.py writes when it resets the controller state
test_tracking_entries ==
    [k \in {"velocity_integral", "velocity_prev_error", "steering_integral",
            "steering_prev_error", "closest_point_idx", "lap_progress"} |-> 0]

\* a reset that carries the last index over into closest_point_idx
reset_test_tracking_carry(cs) ==
    dict_update(dict_clear(cs),
                dict_setitem(test_tracking_entries, "closest_point_idx", GetLastIdx(cs)))

\* test_tracking.py: controller_state.clear(); controller_state.update({...})
reset_test_tracking(cs) == dict_update(dict_clear(cs), test_tracking_entries)

\* analyze_oscillation.py: controller_state.clear() and three assignments
reset_analyze_oscillation(cs) ==
    dict_setitem(dict_setitem(dict_setitem(dict_clear(cs), "last_idx", 0),
                              "velocity_integral", 0),
                 "velocity_prev_error", 0)

\* the lookahead with the two cross-track factors exchanged
LookaheadDistanceTiersSwapped(velocity, cross_track_error) ==
    LET lookahead == base_lookahead + RDiv(velocity_factor * Min(velocity, velocity_cap), Scale)
        reduced == IF cross_track_error > cte_far THEN RDiv(lookahead * 9, 10)
                   ELSE IF cross_track_error > cte_near THEN RDiv(lookahead * 8, 10)
                   ELSE lookahead
    IN  Clip(reduced, lookahead_min, lookahead_max)

\* lookahead = base_lookahead + velocity_factor * min(velocity, 30), the cross-track
\* tiers, then np.clip(lookahead, 6.0, 15.0)
LookaheadDistance(velocity, cross_track_error) ==
    LET lookahead == base_lookahead + RDiv(velocity_factor * Min(velocity, velocity_cap), Scale)
        reduced == IF cross_track_error > cte_far THEN RDiv(lookahead * 8, 10)
                   ELSE IF cross_track_error > cte_near THEN RDiv(lookahead * 9, 10)
                   ELSE lookahead
    IN  Clip(reduced, lookahead_min, lookahead_max)

\* the correction without the side of the target
ErrorCorrectionUnsigned(cross_track_error, target_y) ==
    Clip(RDiv(correction_gain * (cross_track_error - cte_correct), Scale),
         -correction_limit, correction_limit)

\* error_correction = np.clip(0.05 * (cross_track_error - 1.5) * np.sign(target_y), -0.1, 0.1)
ErrorCorrection(cross_track_error, target_y) ==
    Clip(RDiv(correction_gain * (cross_track_error - cte_correct), Scale) * Sign(target_y),
         -correction_limit, correction_limit)

\* np.arctan(2.0 * wheelbase * target_y / (L * L)), one factor of L at a time
PurePursuit(target_y, L) == Arctan(RDiv(RDiv(2 * wheelbase * Scale, L) * target_y, L))

\* the steering before the final clip
RawSteering(cross_track_error, target_y, L) ==
    IF L > L_epsilon
    THEN PurePursuit(target_y, L)
         + (IF cross_track_error > cte_correct
            THEN ErrorCorrection(cross_track_error, target_y) ELSE 0)
    ELSE 0

\* a steering command that is not limited
LimitSteeringMissing(desired_steering) == desired_steering

\* desired_steering = np.clip(desired_steering, -0.9, 0.9)
LimitSteering(desired_steering) == Clip(desired_steering, -steering_limit, steering_limit)

\* the curvature tiers with the speeds of the two middle tiers exchanged
BaseVelocityMiddleSwapped(curvature) ==
    IF curvature > curvature_tight THEN v_tight
    ELSE IF curvature > curvature_moderate THEN v_gentle
    ELSE IF curvature > curvature_gentle THEN v_moderate
    ELSE v_straight

\* the curvature tiers with the tight tier merged into the moderate one
BaseVelocityTightAsModerate(curvature) ==
    IF curvature > curvature_moderate THEN v_moderate
    ELSE IF curvature > curvature_gentle THEN v_gentle
    ELSE v_straight

\* the curvature tiers
BaseVelocity(curvature) ==
    IF curvature > curvature_tight THEN v_tight
    ELSE IF curvature > curvature_moderate THEN v_moderate
    ELSE IF curvature > curvature_gentle THEN v_gentle
    ELSE v_straight

\* the derate without the hard cap
OffTrackVelocityDerateOnly(target_velocity, cross_track_error) ==
    IF cross_track_error > cte_near THEN RDiv(target_velocity * 85, 100)
    ELSE target_velocity

\* further reduce speed if off track
OffTrackVelocity(target_velocity, cross_track_error) ==
    IF cross_track_error > cte_far THEN Min(target_velocity, v_recovery)
    ELSE IF cross_track_error > cte_near THEN RDiv(target_velocity * 85, 100)
    ELSE target_velocity

\* the rate limit without the test of the velocity
RateLimitUnguarded(target_velocity, velocity, residue) ==
    Clip(target_velocity, velocity - max_speed_change, velocity + max_speed_change)

\* smooth speed transitions: `if velocity > 0`, then np.clip to velocity -+ 10, where
\* a velocity of residue 1 is positive and leaves both sums at -+ 10
RateLimit(target_velocity, velocity, residue) ==
    IF velocity > 0 \/ (velocity = 0 /\ residue > 0)
    THEN Clip(target_velocity, velocity - max_speed_change, velocity + max_speed_change)
    ELSE target_velocity

\* controller(state, parameters, racetrack) -> [desired_steering, desired_velocity],
\* with its locals and the controller_state it leaves behind
controller(state, parameters, racetrack, cs) ==
    LET x == Get(state, STATE_X)
        y == Get(state, STATE_Y)
        velocity == Get(state, STATE_VELOCITY)
        heading == Get(state, STATE_HEADING)
        position == <<x, y>>
        track == racetrack
        last_idx == GetLastIdx(cs)
        closest == find_closest_point_on_track(position, track, last_idx)
        closest_idx == closest.closest_idx
        cross_track_error == closest.min_dist
        lookahead == LookaheadDistance(velocity, cross_track_error)
        found == find_lookahead_point(position, track, closest_idx, lookahead)
        lookahead_point == found.lookahead_point
        lookahead_idx == found.lookahead_idx
        dx == lookahead_point[1] - x
        dy == lookahead_point[2] - y
        cos_h == Cos(heading)
        sin_h == Sin(heading)
        target_x == RDiv(cos_h * dx + sin_h * dy, Scale)
        target_y == RDiv((-sin_h) * dx + cos_h * dy, Scale)
        L == ISqrt(target_x * target_x + target_y * target_y)
        raw_steering == RawSteering(cross_track_error, target_y, L)
        desired_steering == LimitSteering(raw_steering)
        curvature == calculate_curvature(track, lookahead_idx, default_window).curvature
        base_velocity == BaseVelocity(curvature)
        target_velocity == OffTrackVelocity(base_velocity, cross_track_error)
        desired_velocity == RateLimit(target_velocity, velocity,
                                      Get(state, VELOCITY_RESIDUE))
    IN  [fn |-> "controller",
         desired |-> [shape |-> <<2>>, data |-> <<desired_steering, desired_velocity>>],
         controller_state |-> SetLastIdx(cs, closest_idx),
         closest_idx |-> closest_idx, cross_track_error |-> cross_track_error,
         lookahead |-> lookahead, found |-> found,
         target_x |-> target_x, target_y |-> target_y, L |-> L,
         raw_steering |-> raw_steering, curvature |-> curvature,
         base_velocity |-> base_velocity, target_velocity |-> target_velocity,
         velocity |-> velocity]

\* a check of the length alone: len(desired) == 2
ShapeOkLength(desired) == Len(desired.shape) >= 1 /\ desired.shape[1] = 2

\* assert(desired.shape == (2,))
ShapeOk(desired) == desired.shape = <<2>>

\* the gain schedule with its two speed boundaries on the lower tier's side
SteeringGainInclusive(current_velocity) ==
    IF current_velocity <= speed_low THEN gain_low_speed
    ELSE IF current_velocity <= speed_mid THEN gain_mid_speed
    ELSE gain_high_speed

\* the velocity-scheduled steering gain
SteeringGain(current_velocity) ==
    IF current_velocity < speed_low THEN gain_low_speed
    ELSE IF current_velocity < speed_mid THEN gain_mid_speed
    ELSE gain_high_speed

\* steering_velocity = np.clip(steering_gain * steering_error, -0.4, 0.4)
SteeringVelocity(current_velocity, steering_error) ==
    Clip(RDiv(SteeringGain(current_velocity) * steering_error, Scale),
         -steering_rate_limit, steering_rate_limit)

\* the proportional acceleration without its clip
AccelerationUnclipped(velocity_error) == RDiv(kp * velocity_error, Scale)

\* acceleration = np.clip(kp * velocity_error, max_decel, max_accel)
Acceleration(velocity_error) == Clip(RDiv(kp * velocity_error, Scale), max_decel, max_accel)

\* lower_controller(state, desired, parameters) -> [steering_velocity, acceleration],
\* or the AssertionError of its first statement
lower_controller(state, desired, parameters) ==
    IF ~ShapeOk(desired)
    THEN [raised |-> "AssertionError", value |-> <<>>]
    ELSE LET current_steering == Get(state, STATE_STEERING)
             current_velocity == Get(state, STATE_VELOCITY)
             desired_steering == Get(desired.data, 0)
             desired_velocity == Get(desired.data, 1)
         IN  [raised |-> "none",
              value |-> << SteeringVelocity(current_velocity,
                                            desired_steering - current_steering),
                           Acceleration(desired_velocity - current_velocity) >>]

(***************************************************************************)
(* The input space.                                                        *)
(***************************************************************************)
Coordinates == {i * PosStep : i \in 0..MaxPosIdx}
Positions == Coordinates \X Coordinates
Velocities == {i * VelStep : i \in -1..MaxVelIdx}
Steerings == {-900, 300}

\* the vehicle states the external dynamics model may produce
States == {<<p[1], p[2], s, v, h, 0>> : p \in Positions, s \in Steerings,
                                      v \in Velocities, h \in Headings}

\* vehicle parameter blobs (opaque to the controller)
ParameterSets == { <<3600, 900, 20000>>, <<2500, 500, 10000>> }

\* lookahead distances of direct calls, with the track length and its neighbours
Distances1(track) == {i * DistStep : i \in -1..MaxDistIdx}
                     \cup {TrackLength(track) - 1, TrackLength(track), TrackLength(track) + 1}

\* test_state of test_controller.py and its two variations
TestStates == { <<100000, 100000, 0, 30000, 0, 0>>, <<100000, 100000, 0, 5000, 0, 0>>,
                <<100000, 100000, 300, 20000, 0, 0>> }

\* states handed to controller directly: at rest, and moving forward by less than
\* binary64 resolves next to 10.0
RestStates == {<<p[1], p[2], 0, 0, 0, residue>> : p \in Positions, residue \in {0, 1}}

\* desired commands handed to lower_controller directly: well-formed and malformed
DesiredShapes == { <<2>>, <<>>, <<1>>, <<3>>, <<2, 1>>, <<1, 2>> }
DesiredData == { <<0, 35000>>, <<900, 12000>>, <<-900, 30000>>, <<300, 20000>>,
                 <<310, 45000>>, <<-2000, -5000>> }
DesiredInputs == {[shape |-> sh, data |-> d] : sh \in DesiredShapes, d \in DesiredData}

\* the vehicle states in which a run of tune_controller may start
ProbeStates == {s \in States : /\ Get(s, STATE_STEERING) = 300
                               /\ Get(s, STATE_VELOCITY) = 3 * VelStep
                               /\ Get(s, STATE_HEADING) = 0}

\* CONTROLLER_CONFIG as config.py creates it: the three entries tune_controller writes
initial_config ==
    [lookahead_distance |-> 15 * Scale, velocity_kp |-> 2 * Scale,
     steering_kp |-> 2 * Scale + Scale \div 2]

\* param_ranges of tune_controller
param_ranges ==
    [velocity_kp |-> <<Scale, 1500, 2 * Scale, 2500, 3 * Scale>>,
     steering_kp |-> <<1500, 2 * Scale, 2500, 3 * Scale, 3500>>,
     lookahead |-> <<10 * Scale, 15 * Scale, 20 * Scale, 25 * Scale>>]

\* the three nested for loops of tune_controller: the values of pass number `pass`
\* (0-based), the lookahead varying fastest
GridPasses == Len(param_ranges.velocity_kp) * Len(param_ranges.steering_kp)
              * Len(param_ranges.lookahead)
GridConfig(pass) ==
    LET n_s == Len(param_ranges.steering_kp)
        n_l == Len(param_ranges.lookahead)
    IN  [lookahead_distance |-> param_ranges.lookahead[(pass % n_l) + 1],
         velocity_kp |-> param_ranges.velocity_kp[(pass \div (n_l * n_s)) + 1],
         steering_kp |-> param_ranges.steering_kp[((pass \div n_l) % n_s) + 1]]

NoValue == [fn |-> "none"]

\* controller_state as controller.py creates it at import
initial_controller_state ==
    [k \in {"last_idx", "velocity_integral", "velocity_prev_error"} |-> 0]

(***************************************************************************)
(* The state machine: a tick loop (controller, lower_controller, the       *)
(* external vehicle update) or, in a unit session, one direct call.        *)
(***************************************************************************)
VARIABLES
    racetrack,         \* track.centerline, fixed for the run
    parameters,        \* car.parameters
    state,             \* car.state
    controller_state,  \* the module-level table of controller.py
    CONTROLLER_CONFIG, \* the module-level table of config.py
    ctl,               \* the locals of the last controller call of the tick
    desired,           \* the desired array of the tick
    control,           \* the control array of the tick
    pc,                \* the next statement of the tick loop, or "unit"
    tune_pass,         \* the passes the grid search of tune_controller has made
    call               \* a direct call: its arguments and its result

vars == <<racetrack, parameters, state, controller_state, CONTROLLER_CONFIG, ctl, desired,
          control, pc, tune_pass, call>>

Init ==
    /\ racetrack \in Tracks
    /\ parameters \in ParameterSets
    /\ pc \in {"controller", "unit", "tune"}
    /\ state \in (IF pc = "unit" THEN {<<100000, 100000, 0, 30000, 0, 0>>}
                  ELSE IF pc = "tune" THEN ProbeStates ELSE States)
    /\ controller_state = initial_controller_state
    /\ CONTROLLER_CONFIG = initial_config
    /\ tune_pass = 0
    /\ ctl = NoValue
    /\ desired = NoValue
    /\ control = NoValue
    /\ call = NoValue

\* desired = controller(car.state, car.parameters, track)
Controller ==
    /\ pc = "controller"
    /\ LET out == controller(state, parameters, racetrack, controller_state)
       IN  /\ ctl' = out
           /\ desired' = out.desired
           /\ controller_state' = out.controller_state
    /\ pc' = "lower"
    /\ UNCHANGED <<CONTROLLER_CONFIG, tune_pass, racetrack, parameters, state, control, call>>

\* control = lower_controller(car.state, desired, car.parameters)
LowerController ==
    /\ pc = "lower"
    /\ control' = lower_controller(state, desired, parameters)
    /\ pc' = "update"
    /\ UNCHANGED <<CONTROLLER_CONFIG, tune_pass, racetrack, parameters, state, controller_state, ctl, desired, call>>

\* car.update(control): the external dynamics model returns the next state
Update ==
    /\ pc = "update"
    /\ state' \in States
    /\ ctl' = NoValue
    /\ desired' = NoValue
    /\ control' = NoValue
    /\ pc' = "controller"
    /\ UNCHANGED <<CONTROLLER_CONFIG, tune_pass, racetrack, parameters, controller_state, call>>

\* the caller resets the controller state as test_tracking.py does
ResetTestTracking ==
    /\ pc = "controller"
    /\ controller_state' = reset_test_tracking(controller_state)
    /\ UNCHANGED <<CONTROLLER_CONFIG, tune_pass, racetrack, parameters, state, ctl, desired, control,
                   pc, call>>

\* the caller resets the controller state as analyze_oscillation.py does
ResetAnalyzeOscillation ==
    /\ pc = "controller"
    /\ controller_state' = reset_analyze_oscillation(controller_state)
    /\ UNCHANGED <<CONTROLLER_CONFIG, tune_pass, racetrack, parameters, state, ctl, desired, control,
                   pc, call>>

\* one pass of the grid search of tune_controller: three entries of CONTROLLER_CONFIG
\* are written, after the run of the previous pass and before the run of this one
TuneController ==
    /\ \/ pc = "tune"
       \/ pc = "run_test" /\ (IF call = NoValue THEN FALSE ELSE call.tune_pass = tune_pass)
    /\ tune_pass < GridPasses
    /\ CONTROLLER_CONFIG' = GridConfig(tune_pass)
    /\ tune_pass' = tune_pass + 1
    /\ pc' = "run_test"
    /\ UNCHANGED <<racetrack, parameters, state, controller_state, ctl, desired, control,
                   call>>

\* the run of a pass: the simulation evaluates controller on the state in which the
\* car starts, with the controller_state and the CONTROLLER_CONFIG the process holds
RunTest ==
    /\ pc = "run_test"
    /\ IF call = NoValue THEN TRUE ELSE call.tune_pass # tune_pass
    /\ LET out == controller(state, parameters, racetrack, controller_state)
       IN  /\ call' = [fn |-> "controller", state |-> state, tune_pass |-> tune_pass,
                       controller_state |-> controller_state, result |-> out]
           /\ controller_state' = out.controller_state
    /\ UNCHANGED <<CONTROLLER_CONFIG, tune_pass, racetrack, parameters, state, ctl, desired,
                   control, pc>>

\* a direct call of controller with a state of the caller's making
CallController ==
    /\ pc = "unit"
    /\ call = NoValue
    /\ \E test_state \in RestStates :
          LET out == controller(test_state, parameters, racetrack, controller_state)
          IN  /\ call' = [fn |-> "controller", state |-> test_state,
                          tune_pass |-> tune_pass,
                          controller_state |-> controller_state, result |-> out]
              /\ controller_state' = out.controller_state
    /\ UNCHANGED <<CONTROLLER_CONFIG, tune_pass, racetrack, parameters, state, ctl, desired,
                   control, pc>>

\* a direct call of find_closest_point_on_track
CallClosest ==
    /\ pc = "unit"
    /\ call = NoValue
    /\ \E position \in Positions, last_idx \in 0..(Len(racetrack) - 1) :
          call' = [fn |-> "find_closest_point_on_track", position |-> position,
                   last_idx |-> last_idx,
                   result |-> find_closest_point_on_track(position, racetrack, last_idx)]
    /\ UNCHANGED <<CONTROLLER_CONFIG, tune_pass, racetrack, parameters, state, controller_state, ctl, desired, control, pc>>

\* a direct call of find_lookahead_point
CallLookahead ==
    /\ pc = "unit"
    /\ call = NoValue
    /\ \E start_idx \in 0..(Len(racetrack) - 1), lookahead_dist \in Distances1(racetrack) :
          call' = [fn |-> "find_lookahead_point", start_idx |-> start_idx,
                   lookahead_dist |-> lookahead_dist,
                   result |-> find_lookahead_point(At(racetrack, start_idx), racetrack,
                                                   start_idx, lookahead_dist)]
    /\ UNCHANGED <<CONTROLLER_CONFIG, tune_pass, racetrack, parameters, state, controller_state, ctl, desired, control, pc>>

\* a direct call of calculate_curvature
CallCurvature ==
    /\ pc = "unit"
    /\ call = NoValue
    /\ \E idx \in 0..(Len(racetrack) - 1), window \in {1, default_window} :
          call' = [fn |-> "calculate_curvature", idx |-> idx, window |-> window,
                   result |-> calculate_curvature(racetrack, idx, window)]
    /\ UNCHANGED <<CONTROLLER_CONFIG, tune_pass, racetrack, parameters, state, controller_state, ctl, desired, control, pc>>

\* a direct call of lower_controller with any desired array
CallLower ==
    /\ pc = "unit"
    /\ call = NoValue
    /\ \E test_state \in TestStates, d \in DesiredInputs :
          call' = [fn |-> "lower_controller", state |-> test_state, desired |-> d,
                   result |-> lower_controller(test_state, d, parameters)]
    /\ UNCHANGED <<CONTROLLER_CONFIG, tune_pass, racetrack, parameters, state, controller_state, ctl, desired, control, pc>>

Next ==
    \/ Controller
    \/ LowerController
    \/ Update
    \/ ResetTestTracking
    \/ ResetAnalyzeOscillation
    \/ TuneController
    \/ RunTest
    \/ CallController
    \/ CallClosest
    \/ CallLookahead
    \/ CallCurvature
    \/ CallLower

Spec == Init /\ [][Next]_vars

(***************************************************************************)
(* Properties.                                                             *)
(***************************************************************************)
NPoints == Len(racetrack)
Indices == 0..(NPoints - 1)

IsClosestCall == call.fn = "find_closest_point_on_track"
IsLookaheadCall == call.fn = "find_lookahead_point"
IsCurvatureCall == call.fn = "calculate_curvature"
IsLowerCall == call.fn = "lower_controller"
ControllerReturned == ctl.fn = "controller"
LowerReturned == pc = "update"

\* C1: find_closest_point_on_track returns an index of minimum Euclidean distance to
\* the position over the whole centerline, with that distance; among several points
\* at the minimum it returns the lowest index; the hint last_idx does not change the
\* result.
ClosestPointIsFirstMinimum ==
    IsClosestCall =>
        LET r == call.result
            dist(i) == Norm(At(racetrack, i), call.position)
        IN  /\ r.closest_idx \in Indices
            /\ r.min_dist = dist(r.closest_idx)
            /\ \A j \in Indices : dist(j) >= r.min_dist
            /\ \A j \in Indices : j < r.closest_idx => dist(j) > r.min_dist
            /\ \A hint \in Indices :
                   find_closest_point_on_track(call.position, racetrack, hint) = r

\* C1 witness: a call whose hint is not the answer, with two points at the minimum
ClosestPointTie ==
    /\ IsClosestCall
    /\ call.last_idx > call.result.closest_idx + 1
    /\ \E j \in Indices : /\ j # call.result.closest_idx
                          /\ Norm(At(racetrack, j), call.position) = call.result.min_dist

\* C2: every desired steering that controller returns lies in [-0.9, 0.9] rad, and
\* every steering rate that lower_controller returns lies in [-0.4, 0.4] rad/s.
SteeringWithinLimits ==
    /\ ControllerReturned =>
           /\ Get(desired.data, 0) >= -steering_limit
           /\ Get(desired.data, 0) <= steering_limit
    /\ LowerReturned =>
           /\ control.raised = "none"
           /\ Get(control.value, 0) >= -steering_rate_limit
           /\ Get(control.value, 0) <= steering_rate_limit
    /\ (IsLowerCall /\ call.result.raised = "none") =>
           /\ Get(call.result.value, 0) >= -steering_rate_limit
           /\ Get(call.result.value, 0) <= steering_rate_limit

\* C2 witness: a tick in which the pure-pursuit angle exceeded the steering range and
\* the proportional steering rate exceeded the rate range
SteeringLimitsActed ==
    /\ LowerReturned
    /\ ctl.raw_steering > steering_limit
    /\ Get(desired.data, 0) = steering_limit
    /\ RDiv(SteeringGain(Get(state, STATE_VELOCITY))
            * (Get(desired.data, 0) - Get(state, STATE_STEERING)), Scale) > steering_rate_limit
    /\ Get(control.value, 0) = steering_rate_limit

\* C3: for every current velocity, zero and negative included, the desired velocity
\* that controller returns differs from the current velocity by at most 10.0 m/s.
SpeedChangeWithinBand ==
    ControllerReturned =>
        Abs(Get(desired.data, 1) - Get(state, STATE_VELOCITY)) <= max_speed_change

\* C4: find_lookahead_point returns after at most n passes of its loop, one full
\* cyclic traversal, for every start index and every lookahead distance.
LookaheadWithinOneTraversal ==
    /\ IsLookaheadCall => call.result.iterations <= NPoints
    /\ ControllerReturned => ctl.found.iterations <= NPoints

\* C4 witness: a lookahead distance beyond the track length, the loop exhausted
LookaheadFullTraversal ==
    /\ IsLookaheadCall
    /\ NPoints > 1
    /\ call.lookahead_dist > TrackLength(racetrack)
    /\ call.result.iterations = NPoints
    /\ ~call.result.in_loop

\* C5: when the lookahead distance exceeds the length of the closed track,
\* find_lookahead_point returns the predecessor of the start point: the point and
\* the index (start_idx - 1) mod n.
DegenerateLookaheadReturnsPredecessor ==
    (IsLookaheadCall /\ call.lookahead_dist > TrackLength(racetrack)) =>
        /\ call.result.lookahead_idx = (call.start_idx - 1) % NPoints
        /\ call.result.lookahead_point = At(racetrack, (call.start_idx - 1) % NPoints)

\* the walk of find_lookahead_point from start_idx for another distance
OtherLookahead(lookahead_dist) ==
    find_lookahead_point(At(racetrack, call.start_idx), racetrack, call.start_idx,
                         lookahead_dist)

\* C6: for a fixed track and start index and distances d1 <= d2 within the track
\* length, the walk for d1 takes no more forward steps from the start index to the
\* index it returns than the walk for d2 (the end of the closing segment counting
\* as n steps); the index returned lies that many steps ahead of the start index.
LookaheadMonotone ==
    (IsLookaheadCall /\ call.lookahead_dist <= TrackLength(racetrack)) =>
        /\ call.result.in_loop
        /\ call.result.lookahead_idx = (call.start_idx + call.result.iterations) % NPoints
        /\ \A d1 \in Distances1(racetrack) :
               d1 <= call.lookahead_dist =>
                   OtherLookahead(d1).iterations <= call.result.iterations

\* C6 witness: a walk of more than one step within the track length, and a shorter
\* distance that stops strictly earlier
LookaheadStrictlyLater ==
    /\ IsLookaheadCall
    /\ call.lookahead_dist <= TrackLength(racetrack)
    /\ call.result.iterations > 2
    /\ \E d1 \in Distances1(racetrack) :
           /\ d1 > 0
           /\ d1 < call.lookahead_dist
           /\ OtherLookahead(d1).iterations < call.result.iterations
           /\ OtherLookahead(d1).iterations > 1

\* circles through the samples of the circular tracks
CircleOf(track) ==
    IF track = Square4 THEN [center |-> <<5000, 5000>>, radius |-> 5000]
    ELSE [center |-> <<0, 0>>, radius |-> 5000]

SquaredDistance(p, q) == (p[1] - q[1]) * (p[1] - q[1]) + (p[2] - q[2]) * (p[2] - q[2])

\* three distinct points on one circle, the outer two equally far from the middle one
UniformCircularSample(p1, p2, p3, circle) ==
    /\ \A p \in {p1, p2, p3} :
           SquaredDistance(p, circle.center) = circle.radius * circle.radius
    /\ SquaredDistance(p1, p2) = SquaredDistance(p2, p3)
    /\ p1 # p2 /\ p2 # p3 /\ p1 # p3

\* the tolerance of "approximately": a tenth of 1/R
InverseRadiusTolerance == Scale \div 10

\* C7: for three sample points on a circle of radius R with equal spacing,
\* calculate_curvature returns approximately 1/R (curvature * R within 10% of 1).
CircleCurvatureIsInverseRadius ==
    (/\ IsCurvatureCall
     /\ racetrack \in {Square4, Arc3}
     /\ UniformCircularSample(call.result.p1, call.result.p2, call.result.p3,
                              CircleOf(racetrack))) =>
        Abs((call.result.curvature * CircleOf(racetrack).radius) \div Scale - Scale)
            <= InverseRadiusTolerance

\* the vector product of the chords p1 -> p2 and p2 -> p3
ChordCross(p1, p2, p3) ==
    (p2[1] - p1[1]) * (p3[2] - p2[2]) - (p2[2] - p1[2]) * (p3[1] - p2[1])

\* C8: calculate_curvature samples track[idx - window], track[idx], track[idx + window]
\* cyclically; it returns 0 when they are collinear and when two of them coincide;
\* it divides only when the denominator is above the 1e-6 floor; its result is never
\* negative.
CurvatureDegenerateIsZero ==
    /\ IsCurvatureCall =>
           LET r == call.result
               p1 == At(racetrack, (call.idx - call.window) % NPoints)
               p2 == At(racetrack, call.idx)
               p3 == At(racetrack, (call.idx + call.window) % NPoints)
               d1 == SquaredDistance(p1, p2)
               d2 == SquaredDistance(p2, p3)
           IN  /\ <<r.p1, r.p2, r.p3>> = <<p1, p2, p3>>
               /\ ChordCross(p1, p2, p3) = 0 => r.curvature = 0
               /\ (p1 = p2 \/ p2 = p3 \/ p1 = p3) => r.curvature = 0
               /\ r.divides => /\ d1 > 0 /\ d2 > 0
                               /\ (d1 > denom_floor \/ d2 > denom_floor
                                   \/ d1 * d2 > denom_floor)
               /\ ~r.divides => r.curvature = 0
               /\ r.curvature >= 0
    /\ ControllerReturned => ctl.curvature >= 0

\* C8 witness: three distinct points that are not collinear, 5 mm apart, so that the
\* denominator is below the floor
CurvatureBelowFloor ==
    /\ IsCurvatureCall
    /\ ChordCross(call.result.p1, call.result.p2, call.result.p3) # 0
    /\ ~call.result.divides
    /\ call.result.d1 * call.result.d2 <= denom_floor
    /\ call.result.curvature = 0

\* C9: lower_controller raises AssertionError and returns no command whenever
\* desired.shape is not (2,), and returns a command of two entries whenever it is.
LowerControllerFailsFast ==
    IsLowerCall =>
        /\ call.desired.shape # <<2>> =>
               /\ call.result.raised = "AssertionError"
               /\ call.result.value = <<>>
        /\ call.desired.shape = <<2>> =>
               /\ call.result.raised = "none"
               /\ Len(call.result.value) = 2

\* C9 witness: a desired array of shape (2, 1), whose length is 2, is refused
LowerControllerRefusedColumn ==
    /\ IsLowerCall
    /\ call.desired.shape = <<2, 1>>
    /\ call.result.raised = "AssertionError"

\* C10 as stated: whenever the cross-track error exceeds 2.0 m, the desired
\* velocity that controller returns is at most 15.0 m/s.
RecoveryCapsDesiredVelocity ==
    (ControllerReturned /\ ctl.cross_track_error > cte_far) =>
        Get(desired.data, 1) <= v_recovery

\* C10 as amended: whenever the cross-track error exceeds 2.0 m, the target velocity
\* that enters the rate limit is at most 15.0 m/s, and the desired velocity returned
\* is at most max(15.0, velocity - 10.0).
RecoveryCapsTargetVelocity ==
    (ControllerReturned /\ ctl.cross_track_error > cte_far) =>
        /\ ctl.target_velocity <= v_recovery
        /\ Get(desired.data, 1)
               <= Max(v_recovery, Get(state, STATE_VELOCITY) - max_speed_change)

\* C10 witness: off the track on a straight, the 35 m/s tier is capped to 15 m/s and
\* the rate limit raises the command above it
RecoveryCapRaisedByRateLimit ==
    /\ ControllerReturned
    /\ ctl.cross_track_error > cte_far
    /\ ctl.base_velocity = v_straight
    /\ ctl.target_velocity = v_recovery
    /\ Get(desired.data, 1) > v_recovery

\* C11 as stated: whenever the curvature at the lookahead index exceeds 0.1, the
\* target velocity that enters the rate limit is 12.0 m/s, whatever the velocity and
\* the cross-track error.
TightCornerTargetIsTwelve ==
    (ControllerReturned /\ ctl.curvature > curvature_tight) =>
        ctl.target_velocity = v_tight

\* C11 as amended: whenever the curvature at the lookahead index exceeds 0.1, the
\* curvature tier is 12.0 m/s for every velocity, and the target velocity that enters
\* the rate limit is 12.0 m/s when the cross-track error is at most 1.0 m or above
\* 2.0 m, and 0.85 * 12.0 = 10.2 m/s when it is above 1.0 m and at most 2.0 m.
TightCornerTargetByErrorTier ==
    (ControllerReturned /\ ctl.curvature > curvature_tight) =>
        /\ ctl.base_velocity = v_tight
        /\ ctl.target_velocity =
               (IF ctl.cross_track_error > cte_near /\ ctl.cross_track_error <= cte_far
                THEN RDiv(v_tight * 85, 100) ELSE v_tight)

\* C11 witness: a tight corner met between 1.0 m and 2.0 m off the centerline at a
\* velocity above the tier, the target derated below 12.0 m/s
TightCornerDerated ==
    /\ ControllerReturned
    /\ ctl.curvature > curvature_tight
    /\ ctl.cross_track_error > cte_near
    /\ ctl.cross_track_error <= cte_far
    /\ ctl.velocity > v_tight
    /\ ctl.target_velocity < v_tight

\* what is required of the acceleration returned for a state and a desired array
AccelerationOf(current_state, desired_array, value) ==
    LET velocity_error == Get(desired_array.data, 1) - Get(current_state, STATE_VELOCITY)
        acceleration == Get(value, 1)
    IN  /\ acceleration = Min(Max(RDiv(3 * velocity_error, 2), -15 * Scale), 15 * Scale)
        /\ acceleration >= -15 * Scale
        /\ acceleration <= 15 * Scale
        /\ Sign(acceleration) = Sign(velocity_error)
        /\ (acceleration = 0) <=> (velocity_error = 0)

\* C12: the acceleration that lower_controller returns is 1.5 times the velocity
\* error (desired minus current velocity) clamped to [-15, 15] m/s^2: it lies in that
\* range, has the sign of the velocity error, and is zero exactly when the desired
\* velocity equals the current velocity.
AccelerationIsClampedProportional ==
    /\ LowerReturned => AccelerationOf(state, desired, control.value)
    /\ (IsLowerCall /\ call.result.raised = "none") =>
           AccelerationOf(call.state, call.desired, call.result.value)

\* C12 witness: a direct call with the desired velocity equal to the current one
AccelerationZeroAtEquality ==
    /\ IsLowerCall
    /\ call.result.raised = "none"
    /\ Get(call.desired.data, 1) = Get(call.state, STATE_VELOCITY)
    /\ Get(call.result.value, 1) = 0

\* C13: resetting the controller session state twice in a row leaves the state that
\* resetting it once leaves, from any prior session state: every reset step ends in
\* the state that two resets of the prior state give, and a further reset of the
\* state it ends in changes nothing.
ResetIsIdempotent ==
    [][/\ ResetTestTracking =>
              /\ reset_test_tracking(reset_test_tracking(controller_state)) = controller_state'
              /\ reset_test_tracking(controller_state') = controller_state'
       /\ ResetAnalyzeOscillation =>
              /\ reset_analyze_oscillation(reset_analyze_oscillation(controller_state))
                     = controller_state'
              /\ reset_analyze_oscillation(controller_state') = controller_state']_vars

\* C13 witness: between two ticks, the session state as the reset of test_tracking.py
\* leaves it, which no controller call produces
SessionResetBetweenTicks ==
    /\ pc = "controller"
    /\ controller_state = test_tracking_entries
    /\ "last_idx" \notin DOMAIN controller_state

\* C14: a controller call changes nothing but controller_state['last_idx'], which it
\* sets to the closest centerline index of the call's position, an index in
\* 0..n-1; it leaves the track, the vehicle state, the parameters and every other
\* entry of the session state as they were. lower_controller changes no session
\* state, nor the track, the vehicle state or the parameters.
CoreChangesOnlyLastIdx ==
    [][/\ (pc = "controller" /\ pc' = "lower") =>
              /\ racetrack' = racetrack
              /\ state' = state
              /\ parameters' = parameters
              /\ DOMAIN controller_state' = (DOMAIN controller_state) \cup {"last_idx"}
              /\ \A k \in (DOMAIN controller_state) \ {"last_idx"} :
                     controller_state'[k] = controller_state[k]
              /\ controller_state'["last_idx"] \in 0..(Len(racetrack) - 1)
              /\ \A j \in 0..(Len(racetrack) - 1) :
                     Norm(At(racetrack, controller_state'["last_idx"]),
                          <<Get(state, STATE_X), Get(state, STATE_Y)>>)
                         <= Norm(At(racetrack, j), <<Get(state, STATE_X), Get(state, STATE_Y)>>)
       /\ (pc = "lower" /\ pc' = "update") =>
              /\ controller_state' = controller_state
              /\ racetrack' = racetrack
              /\ state' = state
              /\ parameters' = parameters
       /\ (call' # call /\ call'.fn = "controller") =>
              /\ racetrack' = racetrack
              /\ state' = state
              /\ parameters' = parameters
              /\ DOMAIN controller_state' = (DOMAIN controller_state) \cup {"last_idx"}
              /\ \A k \in (DOMAIN controller_state) \ {"last_idx"} :
                     controller_state'[k] = controller_state[k]
              /\ controller_state'["last_idx"] = call'.result.closest_idx
       /\ (call' # call /\ call'.fn = "lower_controller") =>
              /\ controller_state' = controller_state
              /\ racetrack' = racetrack
              /\ state' = state
              /\ parameters' = parameters]_vars

\* C14 witness: after the lower controller of a tick, a session state that holds the
\* entries of a test_tracking.py reset untouched and a last index other than 0
LastIdxMovedOthersKept ==
    /\ LowerReturned
    /\ controller_state["last_idx"] > 0
    /\ controller_state["last_idx"] = ctl.closest_idx
    /\ \A k \in DOMAIN test_tracking_entries :
           k \in DOMAIN controller_state /\ controller_state[k] = test_tracking_entries[k]

\* the cross-track tier of an error: 0 up to 1.0 m, 1 up to 2.0 m, 2 above
ErrorTier(cross_track_error) ==
    IF cross_track_error > 2 * Scale THEN 2
    ELSE IF cross_track_error > Scale THEN 1 ELSE 0

\* cross-track errors on both sides of each tier boundary
ErrorSamples == {0, Scale, Scale + 1, 2 * Scale, 2 * Scale + 1, 7 * Scale}

\* C15: the lookahead distance that controller hands to find_lookahead_point is
\* 8.0 + 0.15 * min(velocity, 30), times 0.8 if the cross-track error exceeds 2.0 m
\* or times 0.9 if it exceeds 1.0 m and not 2.0 m, clamped to [6.0, 15.0] m; it lies
\* in [6.0, 15.0], and at the same velocity a higher cross-track tier never gives a
\* larger lookahead.
LookaheadScalesWithSpeedAndError ==
    ControllerReturned =>
        LET velocity == Get(state, STATE_VELOCITY)
            unscaled == 8 * Scale + RDiv(150 * Min(velocity, 30 * Scale), Scale)
            factor == IF ctl.cross_track_error > 2 * Scale THEN 8
                      ELSE IF ctl.cross_track_error > Scale THEN 9 ELSE 10
        IN  /\ ctl.lookahead = Min(Max(RDiv(unscaled * factor, 10), 6 * Scale), 15 * Scale)
            /\ ctl.lookahead >= 6 * Scale
            /\ ctl.lookahead <= 15 * Scale
            /\ ctl.found = find_lookahead_point(<<Get(state, STATE_X), Get(state, STATE_Y)>>,
                                                racetrack, ctl.closest_idx, ctl.lookahead)
            /\ \A e \in ErrorSamples :
                   /\ ErrorTier(e) > ErrorTier(ctl.cross_track_error)
                          => LookaheadDistance(velocity, e) <= ctl.lookahead
                   /\ ErrorTier(e) < ErrorTier(ctl.cross_track_error)
                          => LookaheadDistance(velocity, e) >= ctl.lookahead

\* C15 witness: at 30 m/s and more than 2.0 m off the centerline the lookahead is
\* 0.8 * 12.5 = 10.0 m
LookaheadShortenedFarOff ==
    /\ ControllerReturned
    /\ Get(state, STATE_VELOCITY) = 30 * Scale
    /\ ctl.cross_track_error > cte_far
    /\ ctl.lookahead = 10 * Scale

\* curvatures on both sides of each tier boundary (1/km)
CurvatureSamples == {0, 20, 21, 50, 51, 100, 101, 400}

\* C16: the curvature at the lookahead index selects the base velocity: 12 m/s above
\* 0.1, 18 m/s above 0.05, 25 m/s above 0.02, 35 m/s otherwise; the mapping never
\* increases with curvature; on a straight (curvature at most 0.02) with a
\* cross-track error of at most 1.0 m and a velocity of 30 m/s the desired velocity
\* is 35.0 m/s.
CurvatureTiersSelectVelocity ==
    ControllerReturned =>
        /\ ctl.curvature = calculate_curvature(racetrack, ctl.found.lookahead_idx, 5).curvature
        /\ ctl.base_velocity =
               (IF ctl.curvature > 100 THEN 12 * Scale
                ELSE IF ctl.curvature > 50 THEN 18 * Scale
                ELSE IF ctl.curvature > 20 THEN 25 * Scale
                ELSE 35 * Scale)
        /\ \A c \in CurvatureSamples :
               /\ c >= ctl.curvature => BaseVelocity(c) <= ctl.base_velocity
               /\ c <= ctl.curvature => BaseVelocity(c) >= ctl.base_velocity
        /\ (/\ ctl.curvature <= 20
            /\ ctl.cross_track_error <= Scale
            /\ Get(state, STATE_VELOCITY) = 30 * Scale) => Get(desired.data, 1) = 35 * Scale

\* C16 witness: a gentle bend (curvature between 0.02 and 0.05) selects 25 m/s
GentleBendSelected ==
    /\ ControllerReturned
    /\ ctl.curvature > curvature_gentle
    /\ ctl.curvature <= curvature_moderate
    /\ ctl.base_velocity = v_gentle

\* a point on the segment from p to q: inside its bounding box and, up to the
\* rounding of its two coordinates, collinear with its ends
OnSegment(point, p, q) ==
    /\ point[1] >= Min(p[1], q[1])
    /\ point[1] <= Max(p[1], q[1])
    /\ point[2] >= Min(p[2], q[2])
    /\ point[2] <= Max(p[2], q[2])
    /\ Abs((point[1] - p[1]) * (q[2] - p[2]) - (point[2] - p[2]) * (q[1] - p[1]))
           <= Abs(q[1] - p[1]) + Abs(q[2] - p[2])

\* what is required of a result of find_lookahead_point that stopped inside the
\* segment that starts at index r.segment
StoppedInsideSegment(r, lookahead_dist) ==
    LET i == r.segment
        next == (i + 1) % NPoints
        p == At(racetrack, i)
        q == At(racetrack, next)
        segment_dist == Norm(q, p)
        ratio == RDiv((lookahead_dist - r.accumulated) * Scale, Max(segment_dist, 1))
    IN  /\ i \in Indices
        /\ r.lookahead_idx = next
        /\ r.ratio >= 0
        /\ r.ratio <= Scale
        /\ r.ratio = Min(Max(ratio, 0), Scale)
        /\ OnSegment(r.lookahead_point, p, q)
        /\ r.ratio = 0 => r.lookahead_point = p
        /\ r.ratio = Scale => r.lookahead_point = q
        /\ Abs(Norm(r.lookahead_point, p) * Scale - r.ratio * segment_dist) <= 2 * Scale

\* C17: when find_lookahead_point stops inside the segment from track[i] to
\* track[(i+1) mod n], the point it returns lies on that segment, at the fraction
\* (lookahead_dist - accumulated) / max(segment length, 0.001) clamped to [0, 1] of
\* the way from track[i], and the index it returns is (i+1) mod n.
LookaheadPointOnSegment ==
    /\ (IsLookaheadCall /\ call.result.in_loop) =>
           StoppedInsideSegment(call.result, call.lookahead_dist)
    /\ (ControllerReturned /\ ctl.found.in_loop) =>
           StoppedInsideSegment(ctl.found, ctl.lookahead)

\* C17 witness: a controller call whose lookahead point falls strictly inside the
\* closing segment of the loop, so that the index returned wraps to 0
LookaheadInsideClosingSegment ==
    /\ ControllerReturned
    /\ ctl.found.in_loop
    /\ ctl.found.ratio > 0
    /\ ctl.found.ratio < Scale
    /\ ctl.found.segment = NPoints - 1
    /\ NPoints > 1
    /\ ctl.found.lookahead_idx = 0

\* the correction a controller call added to the pure-pursuit angle (0 when the call
\* took the branch that computes neither)
AddedCorrection ==
    IF ctl.L > L_epsilon THEN ctl.raw_steering - PurePursuit(ctl.target_y, ctl.L) ELSE 0

\* C18: when the distance L to the lookahead point is at most 0.1 m the desired
\* steering is exactly 0 and no correction is computed; when L exceeds 0.1 m a
\* correction is added to the pure-pursuit angle only if the cross-track error
\* exceeds 1.5 m, it is 0.05 * (error - 1.5) clamped to 0.1 rad in magnitude, and its
\* sign is the sign of target_y (zero when target_y is zero).
CorrectionOnlyWhenFarAndOffTrack ==
    ControllerReturned =>
        /\ ctl.L <= Scale \div 10 =>
               /\ ctl.raw_steering = 0
               /\ Get(desired.data, 0) = 0
        /\ (ctl.L > Scale \div 10 /\ ctl.cross_track_error <= 1500) => AddedCorrection = 0
        /\ (ctl.L > Scale \div 10 /\ ctl.cross_track_error > 1500) =>
               /\ Abs(AddedCorrection) <= Scale \div 10
               /\ Abs(AddedCorrection)
                      = (IF ctl.target_y = 0 THEN 0
                         ELSE Min(RDiv(50 * (ctl.cross_track_error - 1500), Scale),
                                  Scale \div 10))
               /\ Sign(AddedCorrection) = Sign(ctl.target_y)
        /\ Get(desired.data, 0) = Min(Max(ctl.raw_steering, -900), 900)

\* C18 witness: more than 3.5 m off the centerline with the lookahead point on the
\* right, the correction is the full -0.1 rad
CorrectionSaturatedRight ==
    /\ ControllerReturned
    /\ ctl.L > L_epsilon
    /\ ctl.cross_track_error > 3500
    /\ ctl.target_y < 0
    /\ AddedCorrection = -correction_limit

\* the gain schedule as stated: 2.0 below 10 m/s, 1.8 from 10 to below 25 m/s, 1.5 from
\* 25 m/s
ScheduledGain(velocity) ==
    IF velocity < 10 * Scale THEN 2 * Scale
    ELSE IF velocity < 25 * Scale THEN 1800
    ELSE 1500

\* velocities on both sides of each gain boundary
VelocitySamples == {-10 * Scale, 0, 10 * Scale - 1, 10 * Scale, 25 * Scale - 1,
                    25 * Scale, 40 * Scale}

\* what is required of the steering rate returned for a state and a desired array
SteeringRateOf(current_state, desired_array, value) ==
    LET velocity == Get(current_state, STATE_VELOCITY)
        steering_error == Get(desired_array.data, 0) - Get(current_state, STATE_STEERING)
        steering_velocity == Get(value, 0)
    IN  /\ steering_velocity
               = Min(Max(RDiv(ScheduledGain(velocity) * steering_error, Scale), -400), 400)
        /\ \A v \in VelocitySamples :
               /\ SteeringGain(v) = ScheduledGain(v)
               /\ v >= velocity => SteeringGain(v) <= ScheduledGain(velocity)
               /\ v <= velocity => SteeringGain(v) >= ScheduledGain(velocity)

\* C19: the steering rate that lower_controller returns is the gain times the
\* steering error (desired minus current steering) clamped to [-0.4, 0.4] rad/s, with
\* gain 2.0 below 10 m/s, 1.8 from 10 m/s to below 25 m/s and 1.5 from 25 m/s; the
\* gain never increases with velocity.
SteeringRateIsScheduledProportional ==
    /\ LowerReturned => SteeringRateOf(state, desired, control.value)
    /\ (IsLowerCall /\ call.result.raised = "none") =>
           SteeringRateOf(call.state, call.desired, call.result.value)

\* C19 witness: a tick at exactly 10 m/s whose steering rate, 1.8 times the steering
\* error, is inside the clamp
SteeringRateAtLowBoundary ==
    /\ LowerReturned
    /\ Get(state, STATE_VELOCITY) = speed_low
    /\ Get(control.value, 0) # 0
    /\ Abs(Get(control.value, 0)) < steering_rate_limit
    /\ Get(control.value, 0)
           = RDiv(gain_mid_speed * (Get(desired.data, 0) - Get(state, STATE_STEERING)), Scale)

IsControllerCall == call.fn = "controller"

\* another run of the same call: stale values of every session entry with one
\* parameter blob, and the entries a test_tracking.py reset leaves, among which there
\* is no last_idx, with the other
OtherRuns ==
    { [controller_state |-> [last_idx |-> NPoints - 1, velocity_integral |-> 2500,
                             velocity_prev_error |-> -300],
       parameters |-> <<2500, 500, 10000>>],
      [controller_state |-> reset_test_tracking(initial_controller_state),
       parameters |-> <<3600, 900, 20000>>] }

VelocityAbsorbed(vehicle_state) ==
    Get(vehicle_state, STATE_VELOCITY) = 0 /\ Get(vehicle_state, VELOCITY_RESIDUE) > 0

\* C21 as stated: for every vehicle state and every track the desired velocity that
\* controller returns is strictly greater than 10.0 m/s, whatever the curvature, the
\* cross-track error and the current velocity.
DesiredVelocityAboveTen ==
    /\ ControllerReturned => Get(desired.data, 1) > 10 * Scale
    /\ IsControllerCall => Get(call.result.desired.data, 1) > 10 * Scale

\* what is required of the desired velocity returned for a vehicle state
DesiredVelocityOf(vehicle_state, desired_array) ==
    LET velocity == Get(vehicle_state, STATE_VELOCITY)
        desired_velocity == Get(desired_array.data, 1)
    IN  /\ desired_velocity >= 10 * Scale
        /\ VelocityAbsorbed(vehicle_state) => desired_velocity = 10 * Scale
        /\ ~VelocityAbsorbed(vehicle_state) =>
               /\ desired_velocity > 10 * Scale
               /\ velocity <= 0 => desired_velocity >= 10200
               /\ velocity > 0 => desired_velocity >= Min(10200, velocity + 10 * Scale)

\* C21 as amended: for every vehicle state and every track the desired velocity that
\* controller returns is at least 10.0 m/s, so it never commands a stop or a
\* negative speed; it is strictly greater than 10.0 m/s (at least 10.2 m/s for a
\* velocity of 0 or less) except for a positive velocity so small that binary64
\* rounds velocity + 10.0 to 10.0, where it is exactly 10.0 m/s.
DesiredVelocityAtLeastTen ==
    /\ ControllerReturned => DesiredVelocityOf(state, desired)
    /\ IsControllerCall => DesiredVelocityOf(call.state, call.result.desired)

\* C21 witness: a direct call on a straight, on the centerline, with a positive
\* velocity that the sum with 10.0 absorbs: the 35 m/s target is clipped to 10.0 m/s
AbsorbedVelocityCommandsTen ==
    /\ IsControllerCall
    /\ VelocityAbsorbed(call.state)
    /\ call.result.base_velocity = v_straight
    /\ call.result.cross_track_error = 0
    /\ Get(call.result.desired.data, 1) = 10 * Scale

====
